---- MODULE Spec2Model ----
(***************************************************************************)
(* PKPWalletManager (src/src/index.ts): the identity registry kept in a    *)
(* JSON file, key issuance through the external network, and the signing   *)
(* facade.  One manager instance lives at a time; Construct replaces it by *)
(* a fresh instance on the same data file.  Calls are asynchronous: a call *)
(* is in flight from its synchronous first part to the continuation that   *)
(* returns, and the calls in flight interleave at their awaits.            *)
(*                                                                         *)
(* Every await is a point where the call is suspended, the await of a      *)
(* promise that is already settled included: what a call computed before   *)
(* the await (a lookup, an error to throw) it uses or delivers after it.   *)
(*                                                                         *)
(* The outcome of every request to the external network and of every file  *)
(* write is decided outside the program: each may succeed or fail, a      *)
(* write may fail after it has truncated the file, and a write that        *)
(* creates the file may create it without read permission (umask).         *)
(* createdAt (index.ts:297) is not modelled: no operation reads it.        *)
(***************************************************************************)
EXTENDS Integers, Sequences, FiniteSets, Bags, TLC

\* ------------------------------------------------------------------ bounds
\* Keys the external network mints in one run at most.
MaxMint == 2

\* The callers of the manager.  Each awaits the call it made (initialize()
\* included) before it makes another, so at most two calls are in flight.
Callers == {"A", "B"}

\* ------------------------------------------------------------- input sets
NoUser == [id |-> "", name |-> "", email |-> ""]
NoPKP == [tokenId |-> 0, publicKey |-> 0, ethAddress |-> 0]

\* UserData values callers supply: two ids that differ only in letter case,
\* and two records with the same id and different name and email.
UserDatas ==
  { [id |-> "alice", name |-> "Alice", email |-> "alice@example.com"],
    [id |-> "alice", name |-> "Al", email |-> "al@example.org"],
    [id |-> "Alice", name |-> "Alice", email |-> "alice@example.com"] }

UserIds == { u.id : u \in UserDatas }

\* Chain names callers supply: one of the table, one that is neither in the
\* table nor inherited, and two names of members the table inherits from
\* Object.prototype, a function and the prototype object.
ChainInputs == {"datil", "solana", "constructor", "__proto__"}

\* Constructor arguments: an empty and a usable master key.
PrivateKeys == {"", "0xmaster"}

\* --------------------------------------------------------- chain registry
SUPPORTED_CHAINS ==
  [ ethereum |-> [name |-> "Ethereum Mainnet", chainId |-> 1],
    sepolia |-> [name |-> "Sepolia Testnet", chainId |-> 11155111],
    polygon |-> [name |-> "Polygon Mainnet", chainId |-> 137],
    datil |-> [name |-> "Lit Datil Testnet", chainId |-> 175188] ]

getSupportedChains == DOMAIN SUPPORTED_CHAINS

NoChain == [name |-> "", chainId |-> 0]

\* SUPPORTED_CHAINS is an object literal, so SUPPORTED_CHAINS[chain] also
\* finds the members it inherits from Object.prototype.
ObjectPrototypeKeys ==
  {"constructor", "toString", "toLocaleString", "valueOf", "hasOwnProperty",
   "isPrototypeOf", "propertyIsEnumerable", "__defineGetter__",
   "__defineSetter__", "__lookupGetter__", "__lookupSetter__", "__proto__"}

\* What the lookup yields for an inherited member: a function (its name is
\* a string) or, for __proto__, the prototype object (no name); none has a
\* chainId.
Inherited(chain) ==
  [name |-> IF chain = "__proto__" THEN ""
            ELSE IF chain = "constructor" THEN "Object" ELSE chain,
   chainId |-> 0]

\* Mutant: only the table's own keys are looked up.
getChainConfig_OwnKeys(chain) ==
  IF chain \in DOMAIN SUPPORTED_CHAINS
    THEN [ok |-> TRUE, config |-> SUPPORTED_CHAINS[chain]]
    ELSE [ok |-> FALSE, config |-> NoChain]

\* [ok, config]: ok = FALSE is the thrown "Unsupported chain" error (the
\* lookup gave undefined).
getChainConfig(chain) ==
  IF chain \in DOMAIN SUPPORTED_CHAINS
    THEN [ok |-> TRUE, config |-> SUPPORTED_CHAINS[chain]]
  ELSE IF chain \in ObjectPrototypeKeys
    THEN [ok |-> TRUE, config |-> Inherited(chain)]
  ELSE [ok |-> FALSE, config |-> NoChain]

\* ------------------------------------------------------------------ state
VARIABLES
  file,            \* the data file: [kind, data]
  privateKey,      \* constructor argument of the live manager
  masterWallet,    \* TRUE when the field is set (non-null)
  litClient,       \* TRUE when the field is set (non-null)
  contractClient,  \* TRUE when the field is set (non-null)
  ipc,             \* where the running initialize() call is suspended
  initCompleted,   \* history: an initialize() of the live manager returned
  minted,          \* external network: number of keys minted so far
  calls,           \* the bag of calls in flight (suspended at an await)
  last,            \* the return being delivered to its caller, if any
  returned,        \* history: <<id, key>> pairs createWallet returned
  resolved,        \* history: <<id, key>> pairs any call resolved
  written,         \* history: minted keys whose store write succeeded
  helper           \* the latest call of a synchronous helper and its result

vars == << file, privateKey, masterWallet, litClient, contractClient, ipc,
           initCompleted, minted, calls, last, returned, resolved, written,
           helper >>

mgrVars == << privateKey, masterWallet, litClient, contractClient, ipc,
              initCompleted >>

\* The key record the network returns for its n-th mint.
MintedPKP(n) == [tokenId |-> n, publicKey |-> n, ethAddress |-> n]

\* ------------------------------------------------------- PKP data management
NoBinding == [user |-> NoUser, pkp |-> NoPKP]

\* Mutant: the content is used whether or not the file could be read.
loadUserPKPs_NoCatch(f) == f.data

\* The data file is [kind, data]: kind "json" is a file the process reads
\* and whose text is the list data; "missing" is no file; "unparsable" a
\* text that is no JSON; "unreadable" a file of the list data that
\* readFileSync fails on for a reason a successful write removes (a text too
\* long to read) or that makes every write fail too (no permission, a
\* directory); "writeonly" a file of the list data that the process may
\* write and may not read (mode 0200), whatever is written to it.
\* A missing, unreadable, write-only or unparsable file loads as the empty
\* list.
loadUserPKPs(f) == IF f.kind = "json" THEN f.data ELSE << >>

\* What writeFileSync does: it writes the text; it throws before it has
\* opened the file; or it throws after it has opened (and so truncated) the
\* file, which leaves a cut-off text that is no JSON.  A file that is
\* missing is created by the write with mode 0666 & ~umask: in the "masked"
\* outcomes the umask of the process takes the read permission away, and
\* the file created is one the process may write and may not read.
WriteOutcomes == {"written", "refused", "cut", "masked", "masked-cut"}

\* The outcomes in which writeFileSync returns.
Succeeds(write) == write \in {"written", "masked"}

\* Mutant: a failed write is tried again until it succeeds.
saveUserPKPs_Retry(f, userPKPs, write) == [kind |-> "json", data |-> userPKPs]

\* An error writeFileSync throws is logged and swallowed.  A write changes
\* the text of the file and not the permissions on it: a write-only file
\* stays one, and a file created write-only is one.
saveUserPKPs(f, userPKPs, write) ==
  LET created == f.kind = "missing" /\ write \in {"masked", "masked-cut"}
  IN IF write = "refused" THEN f
     ELSE IF f.kind = "writeonly" \/ created
       THEN [kind |-> "writeonly",
             data |-> IF Succeeds(write) THEN userPKPs ELSE << >>]
     ELSE IF Succeeds(write) THEN [kind |-> "json", data |-> userPKPs]
     ELSE [kind |-> "unparsable", data |-> << >>]

\* Mutant: the lookup compares user.name with the id.
FindFirst_ByName(userPKPs, userId) ==
  LET hits == { i \in 1..Len(userPKPs) : userPKPs[i].user.name = userId }
  IN IF hits = {} THEN NoBinding
     ELSE userPKPs[CHOOSE i \in hits : \A j \in hits : i <= j]

\* Mutant: the ids are compared without regard to letter case.
FindFirst_IgnoreCase(userPKPs, userId) ==
  LET lower(id) == IF id = "Alice" THEN "alice" ELSE id
      hits == { i \in 1..Len(userPKPs) :
                  lower(userPKPs[i].user.id) = lower(userId) }
  IN IF hits = {} THEN NoBinding
     ELSE userPKPs[CHOOSE i \in hits : \A j \in hits : i <= j]

\* Mutant: the last match wins.
FindFirst_Last(userPKPs, userId) ==
  LET hits == { i \in 1..Len(userPKPs) : userPKPs[i].user.id = userId }
  IN IF hits = {} THEN NoBinding
     ELSE userPKPs[CHOOSE i \in hits : \A j \in hits : i >= j]

\* Array.prototype.find: the first element whose user.id === userId.
FindFirst(userPKPs, userId) ==
  LET hits == { i \in 1..Len(userPKPs) : userPKPs[i].user.id = userId }
  IN IF hits = {} THEN NoBinding
     ELSE userPKPs[CHOOSE i \in hits : \A j \in hits : i <= j]

findUserPKP(f, userId) == FindFirst(loadUserPKPs(f), userId)

\* Mutant: the new binding replaces the list.
Push_Replace(userPKPs, newUserPKP) == << newUserPKP >>

\* userPKPs.push(newUserPKP)
Push(userPKPs, newUserPKP) == Append(userPKPs, newUserPKP)

\* ------------------------------------------------------------ init guards
\* createWallet: !litClient || !contractClient || !masterWallet throws.
CreateGuard == litClient /\ contractClient /\ masterWallet

\* getWallet: !litClient || !masterWallet throws.
WalletGuard == litClient /\ masterWallet

\* ------------------------------------------- arguments and wallet requests
\* An argument, option or string field the caller left out (undefined).
Omitted == "omitted"

\* A numeric field the caller left out (undefined).
NoNumber == -1

\* Mutant: only a missing number is replaced (a ?? b).
OrNumber_Nullish(a, b) == IF a = NoNumber THEN b ELSE a

\* a || b on an optional number: undefined and 0 are falsy.
OrNumber(a, b) == IF a \in {NoNumber, 0} THEN b ELSE a

\* a || b on an optional string: undefined and "" are falsy.
OrString(a, b) == IF a \in {Omitted, ""} THEN b ELSE a

\* Mutant: every operation defaults to datil.
DefaultChain_Datil(op) == "datil"

\* The default of the chain parameter (of options.chain for signMessage).
DefaultChain(op) == IF op = "signERC2612Permit" THEN "ethereum" ELSE "datil"

\* The chain a call works on: the default replaces an omitted argument.
ChainOf(op, given) == IF given = Omitted THEN DefaultChain(op) ELSE given

\* Mutant: eip712 is forwarded as well.
Forwards_Eip712(messageType) ==
  messageType \in {Omitted, "plain", "eip191", "eip712"}

\* signMessage's switch: the cases "plain" and "eip191" (and the default
\* "plain" of an omitted type) call wallet.signMessage; the rest throws.
Forwards(messageType) == messageType \in {Omitted, "plain", "eip191"}

\* ethers.utils.parseUnits("20", "gwei"), in decimal.
TwentyGwei == "20000000000"

\* A transaction with every field left out; chainId is no field of
\* TransactionRequest, a caller may still pass one.
NoTx == [to |-> "", value |-> Omitted, gasLimit |-> NoNumber,
         gasPrice |-> Omitted, data |-> Omitted, chainId |-> NoNumber]

\* signTransaction's txRequest: the caller's fields, then chainId, gasLimit,
\* gasPrice and value on top of them.
txRequest(transaction, chain) ==
  [transaction EXCEPT
     !.chainId = getChainConfig(chain).config.chainId,
     !.gasLimit = OrNumber(transaction.gasLimit, 21000),
     !.gasPrice = OrString(transaction.gasPrice, TwentyGwei),
     !.value = OrString(transaction.value, "0")]

NoDomain == [name |-> "", version |-> "", chainId |-> NoNumber,
             verifyingContract |-> ""]
NoTypes == [name |-> "", fields |-> << >>]

\* signERC2612Permit's domain and types.
PermitDomain(tokenAddress, chain) ==
  [name |-> "Token", version |-> "1",
   chainId |-> getChainConfig(chain).config.chainId,
   verifyingContract |-> tokenAddress]
PermitTypes ==
  [name |-> "Permit",
   fields |-> << << "owner", "address" >>, << "spender", "address" >>,
                 << "value", "uint256" >>, << "nonce", "uint256" >>,
                 << "deadline", "uint256" >> >>]

\* The arguments of a wallet call besides the user id; an operation reads
\* the ones it has.
NoArgs == [chain |-> Omitted, messageType |-> Omitted, message |-> "",
           domain |-> NoDomain, types |-> NoTypes, value |-> "",
           transaction |-> NoTx, tokenAddress |-> ""]

\* What a call hands to the PKP wallet for signing (getWalletInfo: its
\* queries).
NoRequest == [method |-> "none", message |-> "", domain |-> NoDomain,
              types |-> NoTypes, value |-> "", tx |-> NoTx]

RECURSIVE Request(_, _, _)
Request(op, args, chain) ==
  CASE op = "signMessage" ->
         [NoRequest EXCEPT !.method = "signMessage",
                           !.message = args.message]
    [] op = "signTypedData" ->
         [NoRequest EXCEPT !.method = "_signTypedData",
                           !.domain = args.domain, !.types = args.types,
                           !.value = args.value]
    [] op = "signERC2612Permit" ->
         Request("signTypedData",
                 [args EXCEPT
                    !.domain = PermitDomain(args.tokenAddress, chain),
                    !.types = PermitTypes],
                 chain)
    [] op = "signTransaction" ->
         [NoRequest EXCEPT !.method = "signTransaction",
                           !.tx = txRequest(args.transaction, chain)]
    [] op = "getWalletInfo" ->
         [NoRequest EXCEPT !.method = "getAddress"]
    [] OTHER -> NoRequest

\* ---------------------------------------------------------------- calls
AsyncOps == {"signMessage", "signTypedData", "signTransaction",
             "signERC2612Permit", "getWalletInfo"}
WalletOps == AsyncOps \cup {"getWallet"}

\* A call: pc is the await it is suspended at; got is what the call it
\* awaits has settled to; guard, bound, preInit, prior and seen (the length
\* of the list createWallet's lookup loaded) are history facts of the moment
\* it was entered; nreq and nmint count the requests it has
\* sent to the external network and to the wallet.
NoCall == [pc |-> "none", op |-> "none", id |-> "", ud |-> NoUser,
           chain |-> "", key |-> NoPKP, got |-> "none", guard |-> FALSE,
           bound |-> FALSE, preInit |-> FALSE,
           prior |-> FALSE, seen |-> 0, nreq |-> 0, nmint |-> 0,
           args |-> NoArgs, req |-> NoRequest]

\* No call returned in the latest step.
NoReturn == [op |-> "none", id |-> "", ud |-> NoUser, chain |-> "",
             out |-> "none",
             key |-> NoPKP, guard |-> FALSE, bound |-> FALSE,
             preInit |-> FALSE,
             prior |-> FALSE, seen |-> 0, nreq |-> 0, nmint |-> 0,
             nwrite |-> 0, wrote |-> FALSE, list |-> << >>,
             args |-> NoArgs, req |-> NoRequest]

\* The return of call s: its outcome, the key returned (or signed with), and
\* the writes of the store it attempted.
Returned(s, out, key, nwrite, wrote) ==
  [op |-> s.op, id |-> s.id, ud |-> s.ud, chain |-> s.chain, out |-> out,
   key |-> key, guard |-> s.guard,
   bound |-> s.bound, preInit |-> s.preInit, prior |-> s.prior,
   seen |-> s.seen, nreq |-> s.nreq, nmint |-> s.nmint, nwrite |-> nwrite,
   wrote |-> wrote,
   list |-> << >>, args |-> s.args, req |-> s.req]

\* ------------------------------------------------- verification utilities
\* Messages that differ in one byte.
Messages == {"hello", "hullo"}

\* Typed-data payloads (domain, types, value): two that encode, and one
\* that does not (its types name a type that is not defined).
TypedDatas == {"permit", "order", "malformed"}

\* An address is an account in one of the letter-case forms of its hex
\* string.  Account 0 is the zero address; accounts 1..MaxMint are those of
\* the keys the network mints (MintedPKP(n).ethAddress = n).
AddressForms == {"checksum", "lower", "upper"}
Address(acct, form) == [acct |-> acct, form |-> form]
NoAddress == Address(0, "lower")
Addresses == { Address(a, f) : a \in 0..MaxMint, f \in AddressForms }

\* String.prototype.toLowerCase on an address.
toLowerCase(a) == [a EXCEPT !.form = "lower"]

\* A signature: made by the key of account signer over payload, as an
\* EIP-191 message signature or an EIP-712 typed-data signature; or a
\* string that is no signature at all.
NoSignature == [kind |-> "malformed", signer |-> 0, payload |-> ""]
Signed(kind, acct, payload) ==
  [kind |-> kind, signer |-> acct, payload |-> payload]
Signatures ==
  {NoSignature}
    \cup { Signed("eip191", a, m) : a \in 1..MaxMint, m \in Messages }
    \cup { Signed("eip712", a, d) : a \in 1..MaxMint,
                                    d \in TypedDatas \ {"malformed"} }

VerifyOps == {"verifySignature", "verifyTypedDataSignature"}

\* What the wallet of key pkp returns from signMessage(message) and from
\* _signTypedData(domain, types, value).
WalletSignMessage(pkp, message) == Signed("eip191", pkp.ethAddress, message)
WalletSignTypedData(pkp, typedData) ==
  Signed("eip712", pkp.ethAddress, typedData)

\* ethers.utils.verifyMessage / verifyTypedData: the address recovered from
\* a payload and a signature.  ok = FALSE: the call throws (no signature, or
\* a payload that does not encode).  A signature recovers to its signer
\* only for the payload signed, and to an address of no account of the
\* model (MaxMint + 1) for any other.  Recovered addresses are checksummed.
Recover(kind, payload, signature) ==
  IF signature.kind = "malformed" \/ (kind = "eip712" /\ payload = "malformed")
    THEN [ok |-> FALSE, addr |-> NoAddress]
  ELSE IF signature.kind = kind /\ signature.payload = payload
    THEN [ok |-> TRUE, addr |-> Address(signature.signer, "checksum")]
  ELSE [ok |-> TRUE, addr |-> Address(MaxMint + 1, "checksum")]

\* Mutant: the result of the recovery is compared even when it threw.
Verified_Unchecked(r, expectedAddress) ==
  toLowerCase(r.addr) = toLowerCase(expectedAddress)

\* Mutant: the addresses are compared as given.
Verified_CaseSensitive(r, expectedAddress) ==
  r.ok /\ r.addr = expectedAddress

\* The body both helpers share: try { recovered.toLowerCase() ===
\* expectedAddress.toLowerCase() } catch { return false }.
Verified(r, expectedAddress) ==
  r.ok /\ toLowerCase(r.addr) = toLowerCase(expectedAddress)

\* Mutant: the helper works on a set-up manager only.
verifySignature_Guarded(message, signature, expectedAddress) ==
  /\ WalletGuard
  /\ Verified(Recover("eip191", message, signature), expectedAddress)

verifySignature(message, signature, expectedAddress) ==
  Verified(Recover("eip191", message, signature), expectedAddress)

verifyTypedDataSignature(typedData, signature, expectedAddress) ==
  Verified(Recover("eip712", typedData, signature), expectedAddress)

\* A call of a synchronous helper: its arguments and what it returned.
NoHelper == [op |-> "none", chain |-> "", payload |-> "",
             signature |-> NoSignature, address |-> NoAddress,
             out |-> "none", config |-> NoChain, chains |-> {},
             valid |-> FALSE]

\* Keys to which id has been resolved so far, other than key.
OtherResolved(id, key) == { p \in resolved : p[1] = id /\ p[2] # key }

InFlight == BagCardinality(calls) + (IF ipc = "idle" THEN 0 ELSE 1)

\* True when nothing is in flight.
Quiet == InFlight = 0

\* True when a caller is free to wait for another call.
Free == InFlight < Cardinality(Callers)

\* True when no return is on its way to a caller.
Ready == last = NoReturn /\ helper = NoHelper

Suspend(s) == calls' = calls (+) SetToBag({s})
Resume(s, t) == calls' = (calls (-) SetToBag({s})) (+) SetToBag({t})
Finish(s) == calls' = calls (-) SetToBag({s})

Init ==
  /\ file = [kind |-> "missing", data |-> << >>]
  /\ privateKey \in PrivateKeys
  /\ masterWallet = FALSE
  /\ litClient = FALSE
  /\ contractClient = FALSE
  /\ ipc = "idle"
  /\ initCompleted = FALSE
  /\ minted = 0
  /\ calls = EmptyBag
  /\ last = NoReturn
  /\ returned = {}
  /\ resolved = {}
  /\ written = {}
  /\ helper = NoHelper

\* The states a process may find the data file in when it has no list to
\* read from it: no file; a file whose text is not JSON; a file that holds
\* the binding of the network's first key and cannot be read, write-only or
\* not.
FileKinds == {"missing", "unparsable", "unreadable", "writeonly"}
SomeUser == [id |-> "alice", name |-> "Alice", email |-> "alice@example.com"]
InitFile ==
  /\ \E kind \in FileKinds :
       /\ file = [kind |-> kind,
                  data |-> IF kind \in {"unreadable", "writeonly"}
                             THEN << [user |-> SomeUser, pkp |-> MintedPKP(1)] >>
                             ELSE << >>]
       /\ minted = IF kind \in {"unreadable", "writeonly"} THEN 1 ELSE 0
  /\ privateKey \in PrivateKeys
  /\ masterWallet = FALSE
  /\ litClient = FALSE
  /\ contractClient = FALSE
  /\ ipc = "idle"
  /\ initCompleted = FALSE
  /\ calls = EmptyBag
  /\ last = NoReturn
  /\ returned = {}
  /\ resolved = {}
  /\ written = {}
  /\ helper = NoHelper

\* --------------------------------------------------------------- manager
\* new PKPWalletManager(privateKey, network, dataFile) on the same data file,
\* replacing the live instance once its calls have returned.
Construct ==
  /\ Ready
  /\ Quiet
  /\ privateKey' \in PrivateKeys
  /\ masterWallet' = FALSE
  /\ litClient' = FALSE
  /\ contractClient' = FALSE
  /\ ipc' = "idle"
  /\ initCompleted' = FALSE
  /\ last' = NoReturn
  /\ UNCHANGED << file, minted, calls, returned, resolved, written, helper >>

InitializeReturned(out) ==
  [NoReturn EXCEPT !.op = "initialize", !.out = out,
                   !.preInit = ~initCompleted]

\* Mutant: the master key is not tested.
InitializeStart_NoKeyCheck ==
  /\ Ready
  /\ ipc = "idle"
  /\ Free
  /\ masterWallet' = TRUE
  /\ litClient' = TRUE
  /\ ipc' = "lit"
  /\ last' = NoReturn
  /\ UNCHANGED << file, privateKey, contractClient, initCompleted, minted,
                  calls, returned, resolved, written, helper >>

\* initialize() up to its first await (litClient.connect()).
InitializeStart ==
  /\ Ready
  /\ ipc = "idle"
  /\ IF privateKey = ""
       THEN /\ last' = InitializeReturned("config")
            /\ UNCHANGED << masterWallet, litClient, ipc >>
       ELSE /\ Free
            /\ masterWallet' = TRUE
            /\ litClient' = TRUE
            /\ ipc' = "lit"
            /\ last' = NoReturn
  /\ UNCHANGED << file, privateKey, contractClient, initCompleted, minted,
                  calls, returned, resolved, written, helper >>

\* Mutant: a failed connection clears the credential and the client.
LitConnectDone_ClearOnFailure ==
  /\ Ready
  /\ ipc = "lit"
  /\ \E ok \in BOOLEAN :
       IF ok
         THEN /\ contractClient' = TRUE
              /\ ipc' = "contracts"
              /\ last' = NoReturn
              /\ UNCHANGED << masterWallet, litClient >>
         ELSE /\ ipc' = "idle"
              /\ last' = InitializeReturned("upstream")
              /\ masterWallet' = FALSE
              /\ litClient' = FALSE
              /\ UNCHANGED contractClient
  /\ UNCHANGED << file, privateKey, initCompleted, minted, calls, returned,
                  resolved, written, helper >>

\* litClient.connect() settles; on success the contract client is created
\* and contractClient.connect() awaited.
LitConnectDone ==
  /\ Ready
  /\ ipc = "lit"
  /\ \E ok \in BOOLEAN :
       IF ok
         THEN /\ contractClient' = TRUE
              /\ ipc' = "contracts"
              /\ last' = NoReturn
         ELSE /\ ipc' = "idle"
              /\ last' = InitializeReturned("upstream")
              /\ UNCHANGED contractClient
  /\ UNCHANGED << file, privateKey, masterWallet, litClient, initCompleted,
                  minted, calls, returned, resolved, written, helper >>

\* contractClient.connect() settles; on success initialize() returns.
ContractConnectDone ==
  /\ Ready
  /\ ipc = "contracts"
  /\ ipc' = "idle"
  /\ \E ok \in BOOLEAN :
       /\ initCompleted' = (initCompleted \/ ok)
       /\ last' = InitializeReturned(IF ok THEN "ok" ELSE "upstream")
  /\ UNCHANGED << file, privateKey, masterWallet, litClient, contractClient,
                  minted, calls, returned, resolved, written, helper >>

\* ------------------------------------------------------------ createWallet
\* The call as it is entered: the operation, its arguments, and the history
\* facts of that moment.
Entered(op, id, ud, chain) ==
  [NoCall EXCEPT !.op = op, !.id = id, !.ud = ud, !.chain = chain,
                 !.guard = IF op = "createWallet" THEN CreateGuard
                           ELSE WalletGuard,
                 !.bound = (findUserPKP(file, id) # NoBinding),
                 !.seen = IF op = "createWallet" THEN Len(loadUserPKPs(file))
                          ELSE 0,
                 !.preInit = ~initCompleted]

\* createWallet(userData) up to its first await: the init guard, the lookup
\* of an existing binding, and the blockhash request for the mint
\* authorization.
CreateWalletStart(ud) ==
  LET s0 == Entered("createWallet", ud.id, ud, "")
      existing == findUserPKP(file, ud.id)
  IN
  /\ Ready
  /\ IF ~CreateGuard
       THEN /\ last' = Returned(s0, "not-initialized", NoPKP, 0, FALSE)
            /\ UNCHANGED << calls, returned, resolved >>
       ELSE IF existing # NoBinding
         THEN /\ last' = Returned(
                   [s0 EXCEPT !.prior = (OtherResolved(ud.id, existing.pkp) # {})],
                   "ok", existing.pkp, 0, FALSE)
              /\ returned' = returned \cup {<< ud.id, existing.pkp >>}
              /\ resolved' = resolved \cup {<< ud.id, existing.pkp >>}
              /\ UNCHANGED calls
         ELSE /\ Free
              /\ Suspend([s0 EXCEPT !.pc = "blockhash", !.nreq = 1,
                            !.prior = (OtherResolved(ud.id, NoPKP) # {})])
              /\ last' = NoReturn
              /\ UNCHANGED << returned, resolved >>
  /\ UNCHANGED << file, minted, written, helper, mgrVars >>

\* Mutant: the error is caught and another one thrown in its place.
FailUpstream_Wrapped(s) ==
  /\ last' = Returned(s, "wallet-error", NoPKP, 0, FALSE)
  /\ Finish(s)

\* A call ends with an error the external network raised.
FailUpstream(s) ==
  /\ last' = Returned(s, "upstream", NoPKP, 0, FALSE)
  /\ Finish(s)

\* litClient.getLatestBlockhash() settles; on success
\* createSiweMessageWithRecaps is called and awaited.
BlockhashDone(s) ==
  /\ Ready
  /\ s.pc = "blockhash"
  /\ \E ok \in BOOLEAN :
       IF ok
         THEN /\ Resume(s, [s EXCEPT !.pc = "siwe"])
              /\ last' = NoReturn
         ELSE FailUpstream(s)
  /\ UNCHANGED << file, minted, returned, resolved, written, helper, mgrVars >>

\* createSiweMessageWithRecaps settles; on success generateAuthSig is
\* called and awaited.
SiweDone(s) ==
  /\ Ready
  /\ s.pc = "siwe"
  /\ \E ok \in BOOLEAN :
       IF ok
         THEN /\ Resume(s, [s EXCEPT !.pc = "authsig"])
              /\ last' = NoReturn
         ELSE FailUpstream(s)
  /\ UNCHANGED << file, minted, returned, resolved, written, helper, mgrVars >>

\* generateAuthSig settles; on success the mint request goes out
\* (contractClient.mintWithAuth).
AuthSigDone(s) ==
  /\ Ready
  /\ s.pc = "authsig"
  /\ \E ok \in BOOLEAN :
       IF ok
         THEN /\ Resume(s, [s EXCEPT !.pc = "mint", !.nreq = @ + 1,
                                     !.nmint = @ + 1])
              /\ last' = NoReturn
         ELSE FailUpstream(s)
  /\ UNCHANGED << file, minted, returned, resolved, written, helper, mgrVars >>

\* Mutant: the id is looked up once more after the mint, and a binding
\* that appeared in the meantime is kept instead of the new one.
Stored_IfAbsent(f, ud, pkp, write) ==
  IF findUserPKP(f, ud.id) # NoBinding THEN f
  ELSE saveUserPKPs(f, Push(loadUserPKPs(f), [user |-> ud, pkp |-> pkp]),
                    write)

\* Mutant: the binding is pushed onto the list as it was loaded before the
\* mint was awaited, when the store was still empty.
Stored_Stale(f, ud, pkp, write) ==
  saveUserPKPs(f, Push(<< >>, [user |-> ud, pkp |-> pkp]), write)

\* The store after createWallet's load, push and save.
Stored(f, ud, pkp, write) ==
  saveUserPKPs(f, Push(loadUserPKPs(f), [user |-> ud, pkp |-> pkp]), write)

\* Mutant: a failed write is thrown to the caller.
MintDone_Surfacing(s) ==
  /\ Ready
  /\ s.pc = "mint"
  /\ \/ /\ FailUpstream(s)
        /\ UNCHANGED << file, minted, returned, resolved, written >>
     \/ /\ minted < MaxMint
        /\ minted' = minted + 1
        /\ \E write \in WriteOutcomes :
             LET writeOk == Succeeds(write) IN
             /\ file' = Stored(file, s.ud, MintedPKP(minted + 1), write)
             /\ last' = IF writeOk
                          THEN Returned(s, "ok", MintedPKP(minted + 1), 1, TRUE)
                          ELSE Returned(s, "write-error", NoPKP, 1, FALSE)
             /\ written' = IF writeOk
                              THEN written \cup {MintedPKP(minted + 1)}
                              ELSE written
             /\ returned' = IF writeOk
                               THEN returned \cup {<< s.id, MintedPKP(minted + 1) >>}
                               ELSE returned
             /\ resolved' = IF writeOk
                               THEN resolved \cup {<< s.id, MintedPKP(minted + 1) >>}
                               ELSE resolved
        /\ Finish(s)
  /\ UNCHANGED << helper, mgrVars >>

\* mintWithAuth settles.  On success the continuation runs to the return
\* without another await: load, push, save, return mintInfo.pkp.
MintDone(s) ==
  /\ Ready
  /\ s.pc = "mint"
  /\ \/ /\ FailUpstream(s)
        /\ UNCHANGED << file, minted, returned, resolved, written >>
     \/ /\ minted < MaxMint
        /\ minted' = minted + 1
        /\ \E write \in WriteOutcomes :
             LET writeOk == Succeeds(write) IN
             /\ file' = Stored(file, s.ud, MintedPKP(minted + 1), write)
             /\ last' = Returned(s, "ok", MintedPKP(minted + 1), 1, writeOk)
             /\ written' = IF writeOk
                              THEN written \cup {MintedPKP(minted + 1)}
                              ELSE written
        /\ returned' = returned \cup {<< s.id, MintedPKP(minted + 1) >>}
        /\ resolved' = resolved \cup {<< s.id, MintedPKP(minted + 1) >>}
        /\ Finish(s)
  /\ UNCHANGED << helper, mgrVars >>

\* ------------------------------------------------- getWallet and signing
\* Mutant: the chain is looked up before the user.
getWallet_ChainFirst(userId, chain) ==
  LET userPKP == findUserPKP(file, userId)
  IN IF ~WalletGuard THEN [out |-> "not-initialized", key |-> NoPKP]
     ELSE IF ~getChainConfig(chain).ok
       THEN [out |-> "unsupported-chain", key |-> NoPKP]
     ELSE IF userPKP = NoBinding THEN [out |-> "not-found", key |-> NoPKP]
     ELSE [out |-> "ok", key |-> userPKP.pkp]

\* getWallet(userId, chain): the init guard, the lookup, the chain lookup,
\* and chainConfig.name.toLowerCase(), a TypeError when name is undefined.
\* [out, key]: out = "ok" returns a wallet for key.
getWallet(userId, chain) ==
  LET userPKP == findUserPKP(file, userId)
  IN IF ~WalletGuard THEN [out |-> "not-initialized", key |-> NoPKP]
     ELSE IF userPKP = NoBinding THEN [out |-> "not-found", key |-> NoPKP]
     ELSE IF ~getChainConfig(chain).ok
       THEN [out |-> "unsupported-chain", key |-> userPKP.pkp]
     ELSE IF getChainConfig(chain).config.name = ""
       THEN [out |-> "type-error", key |-> userPKP.pkp]
     ELSE [out |-> "ok", key |-> userPKP.pkp]

\* Mutant: a wallet built by an earlier call for the user is used again.
BeforeRequest_Cached(op, userId, chain) ==
  IF \E p \in resolved : p[1] = userId
    THEN [out |-> "ok", key |-> (CHOOSE p \in resolved : p[1] = userId)[2]]
    ELSE getWallet(userId, chain)

\* What a call does before it reaches the network: signERC2612Permit looks
\* the chain up before it calls signTypedData; the others call getWallet
\* first.
BeforeRequest(op, userId, chain) ==
  IF op = "signERC2612Permit" /\ ~getChainConfig(chain).ok
    THEN [out |-> "unsupported-chain", key |-> NoPKP]
    ELSE getWallet(userId, chain)

\* getWallet and the five operations that call it, up to their first
\* await.  getWallet has none: it returns the wallet or throws.
\* signERC2612Permit throws when its own chain lookup fails.  Otherwise the
\* operation has called getWallet (signERC2612Permit through signTypedData),
\* which has run to its end, and awaits the promise it got.
WalletCall(op, userId, args) ==
  LET chain == ChainOf(op, args.chain)
      s0 == [Entered(op, userId, NoUser, chain) EXCEPT !.args = args]
      w == BeforeRequest(op, userId, chain)
      s1 == [s0 EXCEPT !.key = w.key,
                       !.prior = (w.key # NoPKP
                                    /\ OtherResolved(userId, w.key) # {})]
  IN
  /\ Ready
  /\ resolved' = IF w.key # NoPKP
                   THEN resolved \cup {<< userId, w.key >>}
                   ELSE resolved
  /\ IF op = "getWallet"
       THEN /\ last' = Returned(s1, w.out,
                                IF w.out = "ok" THEN w.key ELSE NoPKP,
                                0, FALSE)
            /\ UNCHANGED calls
       ELSE IF op = "signERC2612Permit" /\ w.out = "unsupported-chain"
         THEN /\ last' = Returned(s1, w.out, NoPKP, 0, FALSE)
              /\ UNCHANGED calls
         ELSE /\ Free
              /\ Suspend([s1 EXCEPT !.pc = "wallet", !.got = w.out])
              /\ last' = NoReturn
  /\ UNCHANGED << file, minted, returned, written, helper, mgrVars >>

\* The continuation after 'await this.getWallet(...)': the error getWallet
\* threw is thrown on (signERC2612Permit receives it at its own await);
\* signMessage throws on a message type it does not forward; otherwise the
\* request goes to the wallet.
GetWalletDone(s) ==
  /\ Ready
  /\ s.pc = "wallet"
  /\ IF s.got # "ok" \/ (s.op = "signMessage" /\ ~Forwards(s.args.messageType))
       THEN LET out == IF s.got # "ok" THEN s.got
                       ELSE "unsupported-message-type"
            IN IF s.op = "signERC2612Permit"
                 THEN /\ Resume(s, [s EXCEPT !.pc = "outer", !.got = out])
                      /\ last' = NoReturn
                 ELSE /\ last' = Returned(s, out, NoPKP, 0, FALSE)
                      /\ Finish(s)
       ELSE /\ Resume(s, [s EXCEPT !.pc = "request", !.nreq = 1,
                                   !.req = Request(s.op, s.args, s.chain)])
            /\ last' = NoReturn
  /\ UNCHANGED << file, minted, returned, resolved, written, helper, mgrVars >>

\* A call whose chain is given and whose other arguments are fixed.
SampleArgs ==
  [NoArgs EXCEPT
     !.message = "hello",
     !.domain = [name |-> "Exchange", version |-> "2", chainId |-> 1,
                 verifyingContract |-> "0xexchange"],
     !.types = [name |-> "Order",
                fields |-> << << "maker", "address" >>,
                              << "amount", "uint256" >> >>],
     !.value = "order",
     !.transaction = [NoTx EXCEPT !.to = "0xpayee", !.value = "5"],
     !.tokenAddress = "0xtoken"]

WalletStart(op, userId, chain) ==
  WalletCall(op, userId, [SampleArgs EXCEPT !.chain = chain])

\* The signing request settles and the call returns; signERC2612Permit
\* receives what signTypedData settled to at its own await.  For
\* getWalletInfo the request is wallet.getAddress(), and on success
\* wallet.getBalance() is called and awaited.
WalletDone(s) ==
  /\ Ready
  /\ s.pc = "request"
  /\ \E ok \in BOOLEAN :
       IF s.op = "signERC2612Permit"
         THEN /\ Resume(s, [s EXCEPT !.pc = "outer",
                                     !.got = IF ok THEN "ok" ELSE "upstream"])
              /\ last' = NoReturn
       ELSE IF ~ok THEN FailUpstream(s)
       ELSE IF s.op = "getWalletInfo"
         THEN /\ Resume(s, [s EXCEPT !.pc = "balance", !.nreq = 2,
                                     !.req.method = "getBalance"])
              /\ last' = NoReturn
         ELSE /\ last' = Returned(s, "ok", s.key, 0, FALSE)
              /\ Finish(s)
  /\ UNCHANGED << file, minted, returned, resolved, written, helper, mgrVars >>

\* getWalletInfo: wallet.getBalance() settles; on success
\* wallet.getTransactionCount() is called and awaited.
BalanceDone(s) ==
  /\ Ready
  /\ s.pc = "balance"
  /\ \E ok \in BOOLEAN :
       IF ok
         THEN /\ Resume(s, [s EXCEPT !.pc = "nonce", !.nreq = 3,
                                     !.req.method = "getTransactionCount"])
              /\ last' = NoReturn
         ELSE FailUpstream(s)
  /\ UNCHANGED << file, minted, returned, resolved, written, helper, mgrVars >>

\* getWalletInfo: wallet.getTransactionCount() settles and the call returns.
NonceDone(s) ==
  /\ Ready
  /\ s.pc = "nonce"
  /\ \E ok \in BOOLEAN :
       IF ok
         THEN /\ last' = Returned(s, "ok", s.key, 0, FALSE)
              /\ Finish(s)
         ELSE FailUpstream(s)
  /\ UNCHANGED << file, minted, returned, resolved, written, helper, mgrVars >>

\* signERC2612Permit: 'return await this.signTypedData(...)' settles.
PermitDone(s) ==
  /\ Ready
  /\ s.pc = "outer"
  /\ IF s.got = "ok"
       THEN /\ last' = Returned(s, "ok", s.key, 0, FALSE)
            /\ Finish(s)
     ELSE IF s.got = "upstream" THEN FailUpstream(s)
     ELSE /\ last' = Returned(s, s.got, NoPKP, 0, FALSE)
          /\ Finish(s)
  /\ UNCHANGED << file, minted, returned, resolved, written, helper, mgrVars >>

\* ----------------------------------------------------- synchronous helpers
\* Chain names callers ask about: the table's keys, names the table lacks,
\* and names of members every object inherits.
ChainNames ==
  getSupportedChains
    \cup {"arbitrum", "optimism", "solana", "", "constructor", "__proto__",
          "isPrototypeOf", "__defineGetter__"}

\* Mutant: the helper saves the list it loads.
HelperFrame_Saving ==
  /\ file' = saveUserPKPs(file, loadUserPKPs(file), "written")
  /\ UNCHANGED << minted, calls, last, returned, resolved, written, mgrVars >>

\* A synchronous helper assigns no field and writes no file.
HelperFrame ==
  UNCHANGED << file, minted, calls, last, returned, resolved, written,
               mgrVars >>

\* listUserWallets(): the list loadUserPKPs() gives.  The method is async
\* and has no await: it returns at once.
ListUserWallets ==
  /\ Ready
  /\ last' = [NoReturn EXCEPT !.op = "listUserWallets", !.out = "ok",
                              !.preInit = ~initCompleted,
                              !.list = loadUserPKPs(file)]
  /\ UNCHANGED << file, minted, calls, returned, resolved, written, helper,
                  mgrVars >>

GetSupportedChains ==
  /\ Ready
  /\ helper' = [NoHelper EXCEPT !.op = "getSupportedChains", !.out = "ok",
                                !.chains = getSupportedChains]
  /\ HelperFrame

GetChainConfig(chain) ==
  /\ Ready
  /\ helper' = [NoHelper EXCEPT
                  !.op = "getChainConfig", !.chain = chain,
                  !.out = IF getChainConfig(chain).ok
                            THEN "ok" ELSE "unsupported-chain",
                  !.config = getChainConfig(chain).config]
  /\ HelperFrame

VerifySignature(message, signature, expectedAddress) ==
  /\ Ready
  /\ helper' = [NoHelper EXCEPT
                  !.op = "verifySignature", !.payload = message,
                  !.signature = signature, !.address = expectedAddress,
                  !.out = "ok",
                  !.valid = verifySignature(message, signature,
                                            expectedAddress)]
  /\ HelperFrame

VerifyTypedDataSignature(typedData, signature, expectedAddress) ==
  /\ Ready
  /\ helper' = [NoHelper EXCEPT
                  !.op = "verifyTypedDataSignature", !.payload = typedData,
                  !.signature = signature, !.address = expectedAddress,
                  !.out = "ok",
                  !.valid = verifyTypedDataSignature(typedData, signature,
                                                     expectedAddress)]
  /\ HelperFrame

\* ------------------------------------------------------- specifications
\* The value in last, or the result of the helper, reaches the caller before
\* anything else runs.
Deliver ==
  /\ ~Ready
  /\ last' = NoReturn
  /\ helper' = NoHelper
  /\ UNCHANGED << file, minted, calls, returned, resolved, written, mgrVars >>

\* Calls may overlap: a call may start while others are suspended.  Wallet
\* calls overlap createWallet and initialize() here, and one another in
\* SpecRead.
Next ==
  \/ Construct
  \/ InitializeStart
  \/ LitConnectDone
  \/ ContractConnectDone
  \/ \E ud \in UserDatas : CreateWalletStart(ud)
  \/ \E s \in BagToSet(calls) : BlockhashDone(s)
  \/ \E s \in BagToSet(calls) : SiweDone(s)
  \/ \E s \in BagToSet(calls) : AuthSigDone(s)
  \/ \E s \in BagToSet(calls) : MintDone(s)
  \/ \E op \in WalletOps, id \in UserIds, ch \in ChainInputs :
       /\ \A s \in BagToSet(calls) : s.op = "createWallet"
       /\ WalletStart(op, id, ch)
  \/ \E s \in BagToSet(calls) : GetWalletDone(s)
  \/ \E s \in BagToSet(calls) : WalletDone(s)
  \/ \E s \in BagToSet(calls) : BalanceDone(s)
  \/ \E s \in BagToSet(calls) : NonceDone(s)
  \/ \E s \in BagToSet(calls) : PermitDone(s)
  \/ Deliver

Spec == Init /\ [][Next]_vars

\* Sequential operation: a call starts only when nothing is in flight.
NextSeq ==
  \/ Construct
  \/ Quiet /\ InitializeStart
  \/ LitConnectDone
  \/ ContractConnectDone
  \/ \E ud \in UserDatas : Quiet /\ CreateWalletStart(ud)
  \/ \E s \in BagToSet(calls) : BlockhashDone(s)
  \/ \E s \in BagToSet(calls) : SiweDone(s)
  \/ \E s \in BagToSet(calls) : AuthSigDone(s)
  \/ \E s \in BagToSet(calls) : MintDone(s)
  \/ \E op \in WalletOps, id \in UserIds, ch \in ChainInputs :
       Quiet /\ WalletStart(op, id, ch)
  \/ \E s \in BagToSet(calls) : GetWalletDone(s)
  \/ \E s \in BagToSet(calls) : WalletDone(s)
  \/ \E s \in BagToSet(calls) : BalanceDone(s)
  \/ \E s \in BagToSet(calls) : NonceDone(s)
  \/ \E s \in BagToSet(calls) : PermitDone(s)
  \/ Deliver

SpecSeq == Init /\ [][NextSeq]_vars

\* The synchronous helpers, called on a manager in any state of its set-up.
NextUtil ==
  \/ Construct
  \/ InitializeStart
  \/ LitConnectDone
  \/ ContractConnectDone
  \/ Deliver
  \/ GetSupportedChains
  \/ \E chain \in ChainNames : GetChainConfig(chain)
  \/ \E m \in Messages, sig \in Signatures, a \in Addresses :
       VerifySignature(m, sig, a)
  \/ \E d \in TypedDatas, sig \in Signatures, a \in Addresses :
       VerifyTypedDataSignature(d, sig, a)

SpecUtil == Init /\ [][NextUtil]_vars

\* The user datas of the stores the read operations run on: one per id.
ReadUsers == {u \in UserDatas : u.name = "Alice"}

\* The chain names of the overlapping wallet calls: one of the table and
\* one that getChainConfig rejects.  (The names of inherited members are
\* arguments of getChainConfig here and of the wallet calls of Spec, SpecSeq
\* and SpecFile.)
ReadChains == {"datil", "solana"}

\* The signing and read operations, overlapping one another, on stores that
\* createWallet calls made one at a time have filled.  signTypedData and
\* signTransaction, which take signMessage's path (one await of getWallet,
\* one request to the wallet), start when nothing is in flight; the other
\* calls start at any time.
NextRead ==
  \/ Construct
  \/ Quiet /\ InitializeStart
  \/ LitConnectDone
  \/ ContractConnectDone
  \/ \E ud \in ReadUsers : Quiet /\ CreateWalletStart(ud)
  \/ \E s \in BagToSet(calls) : BlockhashDone(s)
  \/ \E s \in BagToSet(calls) : SiweDone(s)
  \/ \E s \in BagToSet(calls) : AuthSigDone(s)
  \/ \E s \in BagToSet(calls) : MintDone(s)
  \/ \E op \in WalletOps, id \in UserIds, ch \in ReadChains :
       /\ op \in {"signTypedData", "signTransaction"} => Quiet
       /\ \A s \in BagToSet(calls) : s.op # "createWallet"
       /\ ipc = "idle"
       /\ WalletStart(op, id, ch)
  \/ \E s \in BagToSet(calls) : GetWalletDone(s)
  \/ \E s \in BagToSet(calls) : WalletDone(s)
  \/ \E s \in BagToSet(calls) : BalanceDone(s)
  \/ \E s \in BagToSet(calls) : NonceDone(s)
  \/ \E s \in BagToSet(calls) : PermitDone(s)
  \/ ListUserWallets
  \/ GetSupportedChains
  \/ \E chain \in ChainInputs : GetChainConfig(chain)
  \/ VerifySignature("hello", WalletSignMessage(MintedPKP(1), "hello"),
                     Address(1, "lower"))
  \/ VerifyTypedDataSignature("malformed", NoSignature, NoAddress)
  \/ Deliver

SpecRead == Init /\ [][NextRead]_vars

\* Sequential operation on a data file that starts missing, unparsable,
\* unreadable or write-only.
NextFile ==
  \/ Construct
  \/ Quiet /\ InitializeStart
  \/ LitConnectDone
  \/ ContractConnectDone
  \/ \E ud \in UserDatas : Quiet /\ CreateWalletStart(ud)
  \/ \E s \in BagToSet(calls) : BlockhashDone(s)
  \/ \E s \in BagToSet(calls) : SiweDone(s)
  \/ \E s \in BagToSet(calls) : AuthSigDone(s)
  \/ \E s \in BagToSet(calls) : MintDone(s)
  \/ \E op \in WalletOps, id \in UserIds, ch \in ChainInputs :
       Quiet /\ WalletStart(op, id, ch)
  \/ \E s \in BagToSet(calls) : GetWalletDone(s)
  \/ \E s \in BagToSet(calls) : WalletDone(s)
  \/ \E s \in BagToSet(calls) : BalanceDone(s)
  \/ \E s \in BagToSet(calls) : NonceDone(s)
  \/ \E s \in BagToSet(calls) : PermitDone(s)
  \/ Quiet /\ ListUserWallets
  \/ Deliver

SpecFile == InitFile /\ [][NextFile]_vars

\* The arguments of the wallet calls: the chain given or omitted, message
\* types inside and outside options.messageType's type, transactions with
\* fields left out, empty, zero or set, and a chainId of the caller's own.
ChainArgs == {Omitted, "ethereum", "solana"}
MessageTypes == {Omitted, "plain", "eip191", "eip712", "raw"}
Transactions ==
  { [NoTx EXCEPT !.to = "0xpayee", !.gasLimit = gl, !.gasPrice = gp,
                 !.value = v, !.chainId = c] :
      gl \in {NoNumber, 0, 50000}, gp \in {Omitted, "", "1"},
      v \in {Omitted, "", "5"}, c \in {NoNumber, 999} }
TokenAddresses == {"0xtoken", "0xother"}
PermitDatas == {"permit-1", "permit-2"}

ArgsOf(op) ==
  CASE op = "signMessage" ->
         { [NoArgs EXCEPT !.chain = ch, !.messageType = mt, !.message = m] :
             ch \in ChainArgs, mt \in MessageTypes, m \in Messages }
    [] op = "signTypedData" ->
         { [SampleArgs EXCEPT !.chain = ch, !.types = ty, !.value = v,
                              !.domain = d] :
             ch \in ChainArgs, ty \in {SampleArgs.types, PermitTypes},
             v \in PermitDatas,
             d \in {SampleArgs.domain, PermitDomain("0xtoken", "ethereum")} }
    [] op = "signTransaction" ->
         { [NoArgs EXCEPT !.chain = ch, !.transaction = tx] :
             ch \in ChainArgs, tx \in Transactions }
    [] op = "signERC2612Permit" ->
         { [NoArgs EXCEPT !.chain = ch, !.tokenAddress = a, !.value = v] :
             ch \in ChainArgs, a \in TokenAddresses, v \in PermitDatas }
    [] OTHER ->
         { [NoArgs EXCEPT !.chain = ch] : ch \in ChainArgs }

\* Sequential operation with the wallet calls' arguments.
NextSign ==
  \/ Construct
  \/ Quiet /\ InitializeStart
  \/ LitConnectDone
  \/ ContractConnectDone
  \/ \E ud \in UserDatas : Quiet /\ CreateWalletStart(ud)
  \/ \E s \in BagToSet(calls) : BlockhashDone(s)
  \/ \E s \in BagToSet(calls) : SiweDone(s)
  \/ \E s \in BagToSet(calls) : AuthSigDone(s)
  \/ \E s \in BagToSet(calls) : MintDone(s)
  \/ \E op \in WalletOps, id \in UserIds : \E args \in ArgsOf(op) :
       Quiet /\ WalletCall(op, id, args)
  \/ \E s \in BagToSet(calls) : GetWalletDone(s)
  \/ \E s \in BagToSet(calls) : WalletDone(s)
  \/ \E s \in BagToSet(calls) : BalanceDone(s)
  \/ \E s \in BagToSet(calls) : NonceDone(s)
  \/ \E s \in BagToSet(calls) : PermitDone(s)
  \/ Deliver

SpecSign == Init /\ [][NextSign]_vars

\* ================================================================ claims
\* The bindings the store holds, in stored order.
Bindings == loadUserPKPs(file)

IsPrefix(s, t) == Len(s) <= Len(t) /\ SubSeq(t, 1, Len(s)) = s

\* The positions of the bindings of id.
BoundAt(id) == { i \in DOMAIN Bindings : Bindings[i].user.id = id }

\* key is the key of the earliest binding of id.
FirstBound(id, key) ==
  \E i \in BoundAt(id) :
    /\ Bindings[i].pkp = key
    /\ \A j \in BoundAt(id) : i <= j

CallOps == WalletOps \cup {"createWallet"}

\* A createWallet call returned the key it had minted.
MintReturned(r) ==
  r.op = "createWallet" /\ r.out = "ok" /\ ~r.bound

\* The awaits at which a call has a request at its wallet.
RequestPcs == {"request", "balance", "nonce"}

\* The call s is entered in this step and is suspended at its first await.
EntersAndWaits(s) ==
  /\ s.pc \in {"wallet", "blockhash"}
  /\ CopiesIn(s, calls') > CopiesIn(s, calls)

\* A call is entered in this step and returns before any await.
EntersAndReturns == last'.op \in CallOps /\ calls' = calls

\* The suspended call s returns in this step.
Returns(s) ==
  /\ last'.op = s.op /\ last'.id = s.id
  /\ calls' = calls (-) SetToBag({s})

\* C1 (SpecSeq): under sequential operation, all the key records
\* createWallet has returned for one user id are the same record.
C1_SameKeyForSameUser ==
  \A p \in returned, q \in returned : p[1] = q[1] => p[2] = q[2]

\* C2 (SpecSeq): under sequential operation the store never holds two
\* bindings with the same user id.
C2_OneBindingPerUser ==
  \A i \in DOMAIN Bindings, j \in DOMAIN Bindings :
    Bindings[i].user.id = Bindings[j].user.id => i = j

\* Two users are bound, and createWallet was called again for a bound id.
C2_Witness ==
  /\ Len(Bindings) = 2
  /\ last.op = "createWallet" /\ last.bound /\ last.out = "ok"

\* C3: a createWallet call that found its id absent, minted and wrote
\* leaves its own binding last in the file whatever the id has been bound to
\* in the meantime, and every binding in the store is a key createWallet
\* returned for that id, written and stored once.  Two overlapping calls for
\* one new id therefore end with two bindings and two different keys.
C3_EveryWrittenMintIsBound ==
  /\ \A i \in DOMAIN Bindings :
       /\ << Bindings[i].user.id, Bindings[i].pkp >> \in returned
       /\ Bindings[i].pkp \in written
       /\ \A j \in DOMAIN Bindings :
            Bindings[j].pkp = Bindings[i].pkp => j = i
  /\ (MintReturned(last) /\ last.wrote) =>
       /\ file.data # << >>
       /\ file.data[Len(file.data)] = [user |-> last.ud, pkp |-> last.key]
       /\ file.kind = "json" => Bindings = file.data

\* Two calls for one id both found it absent, both minted, and the store
\* holds both bindings; the second caller is receiving its own key.
C3_Witness ==
  /\ MintReturned(last) /\ last.nmint = 1 /\ last.wrote
  /\ \E i \in BoundAt(last.id), j \in BoundAt(last.id) :
       /\ i < j
       /\ Bindings[i].pkp # Bindings[j].pkp
       /\ Bindings[j].pkp = last.key
       /\ << last.id, Bindings[i].pkp >> \in returned
       /\ Bindings[i].pkp.tokenId <= minted /\ last.key.tokenId <= minted

\* C4 as stated: getWallet, getWalletInfo and every signing operation, called
\* with a user id that has no binding, fail with not-found and send nothing
\* to the external network.
C4_Original ==
  (last.op \in WalletOps /\ ~last.bound) =>
    (last.out = "not-found" /\ last.nreq = 0)

\* C4 as amended: such a call sends nothing to the external network and
\* fails; the error is unsupported-chain for signERC2612Permit on a chain
\* name its chain lookup rejects (a name that is neither a key of the table
\* nor the name of a member the table inherits), otherwise not-initialized
\* when the init guard fails and not-found when it passes.
C4_UnknownUserFails ==
  (last.op \in WalletOps /\ ~last.bound) =>
    /\ last.nreq = 0
    /\ last.key = NoPKP
    /\ last.out =
         IF last.op = "signERC2612Permit" /\ ~getChainConfig(last.chain).ok
           THEN "unsupported-chain"
         ELSE IF ~last.guard THEN "not-initialized"
         ELSE "not-found"

\* A signing call for an unbound id failed with not-found.
C4_Witness ==
  /\ last.op \in AsyncOps /\ ~last.bound
  /\ last.out = "not-found" /\ last.nreq = 0

\* C5: a call entered before an initialize() of the manager has returned
\* fails with not-initialized, sends no request and writes nothing; none is
\* ever suspended at an await.  (signERC2612Permit on a chain outside the
\* table is left out: it fails on the chain before it reaches the guard.)
C5_NotInitializedBeforeSetup ==
  /\ ( /\ last.op \in CallOps
       /\ last.preInit
       /\ ~(last.op = "signERC2612Permit"
              /\ last.chain \notin getSupportedChains) )
       => ( /\ last.out = "not-initialized"
            /\ last.nreq = 0 /\ last.nmint = 0 /\ last.nwrite = 0 )
  /\ \A s \in BagToSet(calls) : ~s.preInit

\* C6: a key whose mint succeeded and whose write failed stays on the
\* external network and has no binding in the store; the call that minted
\* it wrote once, minted once and returned.
C6_OrphanedKey ==
  /\ \A p \in returned :
       p[2] \notin written =>
         /\ p[2].tokenId \in 1..minted
         /\ \A i \in DOMAIN Bindings : Bindings[i].pkp # p[2]
  /\ (MintReturned(last) /\ ~last.wrote) =>
       /\ last.nwrite = 1 /\ last.nmint = 1
       /\ last.key \notin written
       /\ << last.id, last.key >> \in returned

\* A mint succeeded and the write of its binding failed.
C6_Witness ==
  /\ MintReturned(last) /\ ~last.wrote /\ last.nmint = 1
  /\ last.key = MintedPKP(minted)

\* C7: the bindings stored before a step are a prefix of the bindings stored
\* after it: no step removes, reorders or rewrites a binding.
C7_AppendOnly == [][IsPrefix(Bindings, Bindings')]_vars

\* C8: no call resolves a user id to a key when the id had been resolved to
\* another key before the call was entered: neither a createWallet or
\* getWallet that returns, nor a signing call that has its wallet.
C8_KeyNeverChanges ==
  /\ (last.op \in CallOps /\ last.out = "ok") => ~last.prior
  /\ \A s \in BagToSet(calls) : s.pc \in RequestPcs => ~s.prior

\* C9 as stated: createWallet for a bound user id returns the stored key,
\* mints nothing and leaves the store as it was.
C9_Original ==
  [][ (last'.op = "createWallet" /\ last'.bound) =>
        /\ last'.out = "ok"
        /\ FirstBound(last'.id, last'.key)
        /\ last'.nmint = 0
        /\ minted' = minted
        /\ file' = file ]_vars

\* C9 as amended: createWallet for a bound user id mints nothing, sends
\* nothing and leaves the store as it was; when the init guard passes it
\* returns the stored key (the earliest binding's), whatever name and email
\* were supplied, and otherwise it fails with not-initialized.
C9_BoundUserGetsStoredKey ==
  [][ (last'.op = "createWallet" /\ last'.bound) =>
        /\ last'.nmint = 0 /\ last'.nreq = 0 /\ last'.nwrite = 0
        /\ minted' = minted
        /\ file' = file
        /\ IF last'.guard
             THEN last'.out = "ok" /\ FirstBound(last'.id, last'.key)
             ELSE last'.out = "not-initialized" /\ last'.key = NoPKP ]_vars

\* createWallet returned the stored key to a caller whose name and email
\* differ from the stored user record.
C9_Witness ==
  /\ last.op = "createWallet" /\ last.bound /\ last.out = "ok"
  /\ \E i \in BoundAt(last.id) :
       Bindings[i].pkp = last.key /\ Bindings[i].user # last.ud

\* C10 as stated: when createWallet finds the id absent and the mint and the
\* write succeed, the call sent one mint request, the store grew by exactly
\* the binding of the supplied user data to the minted key, and that key is
\* the one returned.
C10_Original ==
  [][ (MintReturned(last') /\ last'.wrote) =>
        /\ last'.nmint = 1 /\ last'.nwrite = 1
        /\ minted' = minted + 1
        /\ last'.key = MintedPKP(minted')
        /\ Bindings' = Append(Bindings, [user |-> last'.ud, pkp |-> last'.key]) ]_vars

\* C10 as amended: in that case the call sent one mint request, the list
\* written to the file is the list the call loaded with exactly the binding
\* of the supplied user data to the minted key appended, and that key is the
\* one returned; the store grew by that binding when the process can read
\* the file it wrote, and it cannot when the file is write-only (created so
\* under the umask of the process, or found so).
C10_MintAndBind ==
  [][ (MintReturned(last') /\ last'.wrote) =>
        LET new == [user |-> last'.ud, pkp |-> last'.key] IN
        /\ last'.nmint = 1 /\ last'.nwrite = 1
        /\ minted' = minted + 1
        /\ last'.key = MintedPKP(minted')
        /\ file'.data = Append(Bindings, new)
        /\ file'.kind \in {"json", "writeonly"}
        /\ file'.kind = "json" => Bindings' = Append(Bindings, new)
        /\ file'.kind = "writeonly" =>
             /\ Bindings = << >> /\ Bindings' = << >>
             /\ file.kind \in {"missing", "writeonly"} ]_vars

\* A mint and its write succeeded on a store that already held a binding.
C10_Witness ==
  /\ MintReturned(last) /\ last.wrote /\ last.nmint = 1
  /\ Len(Bindings) = 2
  /\ Bindings[2] = [user |-> last.ud, pkp |-> last.key]
\* C11: a createWallet call that leaves its await without a successful mint
\* (the blockhash fetch, the authorization signature or the mint failed)
\* delivers the network's error to its caller, has sent at most one mint
\* request, has written nothing, and leaves the store as it was.
C11_UpstreamErrorPropagates ==
  [][ \A s \in BagToSet(calls) :
        ( /\ s.op = "createWallet"
          /\ calls' = calls (-) SetToBag({s})
          /\ minted' = minted )
        => ( /\ last'.op = "createWallet" /\ last'.id = s.id
             /\ last'.out = "upstream"
             /\ last'.key = NoPKP
             /\ last'.nmint = s.nmint /\ s.nmint <= 1
             /\ last'.nwrite = 0
             /\ file' = file ) ]_vars

\* A mint request failed on a store that holds a binding: the caller is
\* receiving the error.
C11_Witness ==
  /\ last.op = "createWallet" /\ last.out = "upstream" /\ last.nmint = 1
  /\ Len(Bindings) = 1

\* C12: a manager constructed with an empty master key never has its
\* credential, network client or contract client set and never waits for a
\* connection, and every initialize() on it fails with the configuration
\* error.
C12_EmptyKeyIsConfigError ==
  privateKey = "" =>
    /\ ~masterWallet /\ ~litClient /\ ~contractClient
    /\ ipc = "idle"
    /\ ~initCompleted
    /\ last.op = "initialize" => last.out = "config"

\* initialize() on a manager with an empty key has just failed.
C12_Witness ==
  /\ privateKey = ""
  /\ last.op = "initialize" /\ last.out = "config"

\* C13: getChainConfig(name) fails with the unsupported-chain error for
\* every name that is not a key of the chain table, and for a key of the
\* table returns the descriptor with the table's chainId for that key.
C13_ChainConfigMatchesTable ==
  helper.op = "getChainConfig" =>
    IF helper.chain \in DOMAIN SUPPORTED_CHAINS
      THEN /\ helper.out = "ok"
           /\ helper.config.chainId = SUPPORTED_CHAINS[helper.chain].chainId
      ELSE helper.out = "unsupported-chain"

\* The chains the README documents (part_000: Supported Chains).
README_CHAINS ==
  [ ethereum |-> 1, polygon |-> 137, arbitrum |-> 42161, optimism |-> 10,
    sepolia |-> 11155111, datil |-> 175188 ]

\* C14: getSupportedChains() returns exactly the six documented chains, and
\* each has the documented chain id.
C14_SixSupportedChains ==
  helper.op = "getSupportedChains" =>
    /\ helper.chains = DOMAIN README_CHAINS
    /\ \A c \in DOMAIN README_CHAINS :
         /\ getChainConfig(c).ok
         /\ getChainConfig(c).config.chainId = README_CHAINS[c]
\* C15: for every key n and message m, verifySignature applied to the
\* signature the key's wallet gives for m and to the key's address (in any
\* letter case) is true for the message m and false for any other message.
C15_SignThenVerify ==
  helper.op = "verifySignature" =>
    \A n \in 1..MaxMint, m \in Messages :
      ( /\ helper.signature = WalletSignMessage(MintedPKP(n), m)
        /\ helper.address.acct = MintedPKP(n).ethAddress )
      => helper.valid = (helper.payload = m)

\* A signature was verified against the signer's address written in lower
\* case, for the message signed.
C15_Witness ==
  /\ helper.op = "verifySignature" /\ helper.valid
  /\ helper.signature = WalletSignMessage(MintedPKP(1), helper.payload)
  /\ helper.address = Address(MintedPKP(1).ethAddress, "lower")

\* C16: verifySignature and verifyTypedDataSignature return a boolean for
\* every input and never throw; when the recovery of the address throws
\* they return false.
C16_VerifyNeverThrows ==
  helper.op \in VerifyOps =>
    /\ helper.out = "ok"
    /\ helper.valid \in BOOLEAN
    /\ ~Recover(IF helper.op = "verifySignature" THEN "eip191" ELSE "eip712",
                helper.payload, helper.signature).ok
         => ~helper.valid

\* A typed-data payload that does not encode was verified against the
\* zero address: the helper returned false.
C16_Witness ==
  /\ helper.op = "verifyTypedDataSignature" /\ helper.out = "ok"
  /\ helper.payload = "malformed" /\ helper.address.acct = 0
  /\ ~helper.valid
\* A step of a signing or read operation: one of them returns, one of them
\* is suspended at its request, or a synchronous helper is called.
ReadOps == WalletOps \cup {"listUserWallets"}
ReadStep ==
  \/ last'.op \in ReadOps
  \/ helper' # helper
  \/ \E s \in BagToSet(calls') :
       s.op \in AsyncOps /\ CopiesIn(s, calls') > CopiesIn(s, calls)

\* C17: no step of a signing or read operation changes the store, the
\* credential, the client handles or the keys on the network, whether the
\* operation succeeds or fails; so whatever else is in flight, a signing or
\* read call gives what the store determines when the call is made: the
\* wallet is built for the key of the id's first binding, the call that
\* succeeds returns the result of that key, and listUserWallets returns the
\* list of bindings.
C17_ReadOpsChangeNothing ==
  [][ ReadStep =>
        /\ UNCHANGED << file, privateKey, masterWallet, litClient,
                        contractClient, minted >>
        /\ \A s \in BagToSet(calls') :
             (s.op \in AsyncOps /\ EntersAndWaits(s) /\ s.got = "ok")
               => FirstBound(s.id, s.key)
        /\ (last'.op = "getWallet" /\ last'.out = "ok")
             => FirstBound(last'.id, last'.key)
        /\ \A s \in BagToSet(calls) :
             (s.op \in AsyncOps /\ Returns(s) /\ last'.out = "ok")
               => (s.got = "ok" /\ last'.key = s.key)
        /\ last'.op = "listUserWallets" => last'.list = Bindings ]_vars

\* A signing call for a bound user returns while another signing call for
\* a bound user is in flight.
C17_Witness ==
  /\ last.op \in AsyncOps /\ last.bound /\ last.out = "ok"
  /\ \E s \in BagToSet(calls) : s.op \in AsyncOps /\ s.bound

\* getWallet returned a wallet to the call in flight c: the call waits for
\* it, has a request at it, or (signERC2612Permit) waits for the
\* signTypedData that had it.
WalletBuilt(c) ==
  \/ c.pc = "wallet" /\ c.got = "ok"
  \/ c.pc \in {"request", "balance", "nonce"}
  \/ c.pc = "outer" /\ c.got \in {"ok", "upstream"}

\* The wallet the call in flight c works with is the one getWallet built in
\* that call: the manager passed the guard when the call was made, the key
\* is one the call's user id was looked up to, the session is for the
\* call's own chain, whose entry has a name, and getWallet came to its
\* 'new PKPEthersWallet'.
OwnWallet(c) ==
  /\ WalletBuilt(c)
  /\ c.guard
  /\ c.key # NoPKP /\ << c.id, c.key >> \in resolved
  /\ getChainConfig(c.chain).ok
  /\ getChainConfig(c.chain).config.name # ""

\* The requests a call has sent when it waits at pc.
SentAt(pc) ==
  CASE pc = "request" -> 1 [] pc = "balance" -> 2 [] pc = "nonce" -> 3
    [] OTHER -> 0

\* C18 (SpecRead): every signing call that reaches the network, and every
\* call that returns a wallet or a result, works with the wallet built in
\* that call from its own lookup and its own chain: the wallet a call is
\* given is for the key of the first binding of its id at that moment, and
\* none works with a wallet of another call.
C18_FreshWalletPerCall ==
  [][ /\ \A s \in BagToSet(calls') :
           /\ (s.op \in AsyncOps /\ EntersAndWaits(s) /\ s.got = "ok")
                => ( /\ s.guard /\ getChainConfig(s.chain).ok
                     /\ FirstBound(s.id, s.key) /\ s.nreq = 0 )
           /\ s.pc \in RequestPcs =>
                (s.got = "ok" /\ OwnWallet(s) /\ s.nreq = SentAt(s.pc))
      /\ (last'.op = "getWallet" /\ last'.out = "ok")
           => ( /\ last'.guard /\ getChainConfig(last'.chain).ok
                /\ FirstBound(last'.id, last'.key) /\ last'.nreq = 0 )
      /\ \A s \in BagToSet(calls) :
           (s.op \in AsyncOps /\ Returns(s) /\ last'.out = "ok")
             => ( /\ last'.key = s.key /\ OwnWallet(s)
                  /\ last'.nreq = IF s.op = "getWalletInfo" THEN 3
                                  ELSE 1 ) ]_vars

\* A signing call for a user returns while a second signing call for the
\* same user, entered later, is in flight with its own wallet.
C18_Witness ==
  /\ last.op = "signMessage" /\ last.out = "ok" /\ ~last.prior
  /\ \E s \in BagToSet(calls) :
       /\ s.pc = "request" /\ s.id = last.id /\ s.key = last.key
       /\ << s.id, s.key >> \in resolved

\* C19: a lookup finds the earliest binding whose id equals the requested
\* id exactly.  Every key createWallet returns from the store, and every
\* key a wallet is built for, is that of the first binding with exactly
\* the call's id at the moment of the call, also when several bindings
\* share the id; a call finds its id bound exactly when a binding with that
\* very id is stored; and bindings with different ids, ids that differ only
\* in letter case included, never share a key.
C19_ExactFirstMatch ==
  [][ /\ ( /\ EntersAndReturns /\ last'.out = "ok"
            /\ last'.op \in {"createWallet", "getWallet"} )
           => FirstBound(last'.id, last'.key)
      /\ EntersAndReturns => (last'.bound <=> BoundAt(last'.id) # {})
      /\ \A s \in BagToSet(calls') :
           EntersAndWaits(s) =>
             /\ s.bound <=> BoundAt(s.id) # {}
             /\ (s.op \in AsyncOps /\ s.got = "ok")
                  => FirstBound(s.id, s.key)
      /\ \A i \in DOMAIN Bindings', j \in DOMAIN Bindings' :
           Bindings'[i].user.id # Bindings'[j].user.id
             => Bindings'[i].pkp # Bindings'[j].pkp ]_vars

\* "alice" is bound; createWallet for "Alice" found it absent and is
\* returning a key of its own.
C19_Witness ==
  /\ MintReturned(last) /\ last.wrote /\ last.id = "Alice"
  /\ BoundAt("alice") # {} /\ BoundAt("Alice") # {}
  /\ ~FirstBound("alice", last.key)
\* The two steps of initialize() that assign the handles.
SetsCredentialAndClient ==
  /\ ipc = "idle" /\ ipc' = "lit"
  /\ masterWallet' /\ litClient'
  /\ contractClient' = contractClient
SetsContractClient ==
  /\ ipc = "lit" /\ ipc' = "contracts"
  /\ contractClient'
  /\ masterWallet' = masterWallet /\ litClient' = litClient

\* A new manager takes the place of the live one: its handles are unset.
NewManager ==
  /\ calls = EmptyBag /\ ipc = "idle"
  /\ ~masterWallet' /\ ~litClient' /\ ~contractClient' /\ ipc' = "idle"

\* C20: the credential and the two clients of a manager change only in the
\* steps of initialize() that assign them, and the master key only with the
\* manager; no step of createWallet, of a signing or lookup call or of a
\* helper touches them.  Every call that is waiting for the network runs on
\* a manager whose credential is set and was made from its one master key.
C20_HandlesSetOnlyByInitialize ==
  [][ /\ << masterWallet, litClient, contractClient >>'
           # << masterWallet, litClient, contractClient >>
           => (SetsCredentialAndClient \/ SetsContractClient \/ NewManager)
      /\ privateKey' # privateKey => NewManager
      /\ (masterWallet' \/ litClient' \/ contractClient')
           => (masterWallet' /\ litClient' /\ privateKey' # "")
      /\ \A s \in BagToSet(calls') :
           s.pc \notin {"wallet", "outer"} => (masterWallet' /\ litClient') ]_vars

\* A signing call has failed on the network and a createWallet call is
\* waiting for its mint: the handles are as initialize() left them.
C20_Witness ==
  /\ last.op \in AsyncOps /\ last.out = "upstream"
  /\ \E s \in BagToSet(calls) : s.pc = "mint"
  /\ masterWallet /\ litClient /\ contractClient /\ initCompleted
\* The keys minted for id whose write succeeded.
WrittenFor(id) ==
  { p[2] : p \in { q \in returned : q[1] = id /\ q[2] \in written } }

C22_WriteFailureNotSurfaced ==
  /\ (last.op = "createWallet" /\ last.nwrite = 1) =>
       /\ last.out = "ok"
       /\ last.key = MintedPKP(minted)
       /\ << last.id, last.key >> \in returned
       /\ ~last.wrote => BoundAt(last.id) = {}
  /\ (MintReturned(last) /\ last.prior) =>
       \A p \in returned :
         (p[1] = last.id /\ p[2] # last.key) =>
           /\ p[2].tokenId < last.key.tokenId
           /\ \A i \in DOMAIN Bindings : Bindings[i].pkp # p[2]

\* The write of the first key of an id failed; the next createWallet for
\* the id found no binding and is returning a second key.
C22_Witness ==
  /\ MintReturned(last) /\ last.prior /\ last.nmint = 1
  /\ \E p \in returned :
       p[1] = last.id /\ p[2] # last.key /\ p[2] \notin written
\* The errors the operations raise.
KnownErrors == {"not-initialized", "not-found", "unsupported-chain",
                "type-error", "upstream", "config"}

\* C23 (SpecFile): while the data file is missing, unparsable or unreadable
\* (write-only included) every operation sees an empty store and none fails
\* because of the file: lookups find nothing, listUserWallets returns the
\* empty list, a signing or wallet call sends nothing and fails, with
\* not-found when the guard and the chain lookup of signERC2612Permit pass,
\* and the createWallet call whose write succeeds leaves a file that holds
\* its new binding only; that file can be read from then on unless it is
\* write-only, which it stays, or was missing and is created write-only.
C23_UnusableFileIsEmptyStore ==
  [][ file.kind \in FileKinds =>
        /\ last'.op # "none" =>
             /\ last'.out \in KnownErrors \cup {"ok"}
             /\ ~last'.bound
        /\ last'.op = "listUserWallets" =>
             /\ last'.out = "ok" /\ last'.list = << >>
        /\ last'.op \in WalletOps =>
             /\ last'.out \in {"not-initialized", "not-found", "unsupported-chain"}
             /\ last'.nreq = 0
             /\ ( /\ last'.guard
                  /\ ~(last'.op = "signERC2612Permit" /\ ~getChainConfig(last'.chain).ok) )
                  => last'.out = "not-found"
        /\ (last'.op = "createWallet" /\ last'.guard)
             => last'.out \in {"ok", "upstream"}
        /\ file' # file => MintReturned(last') /\ last'.nmint = 1
        /\ file'.kind = "json" =>
             /\ MintReturned(last') /\ last'.wrote
             /\ file.kind # "writeonly"
        /\ (MintReturned(last') /\ last'.wrote) =>
             /\ file'.data = << [user |-> last'.ud, pkp |-> last'.key] >>
             /\ file'.kind \in {"json", "writeonly"}
             /\ file'.kind = "writeonly" =>
                  file.kind \in {"missing", "writeonly"}
        /\ file.kind = "writeonly" => file'.kind = "writeonly"
        /\ \A s \in BagToSet(calls') : s.op \in WalletOps =>
             s.got # "ok" /\ s.nreq = 0 ]_vars

\* createWallet has minted and written on a file that could not be read: the
\* store holds the new binding only.
C23_Witness ==
  /\ MintReturned(last) /\ last.wrote
  /\ last.key = MintedPKP(2)
  /\ file = [kind |-> "json", data |-> << [user |-> last.ud, pkp |-> last.key] >>]
\* The error of a wallet call from the checks in their order: for
\* signERC2612Permit the chain lookup comes first; then the init guard, the
\* user lookup and the chain lookup of getWallet.
FirstFailure(op, guard, bound, chain) ==
  IF op = "signERC2612Permit" /\ ~getChainConfig(chain).ok
    THEN "unsupported-chain"
  ELSE IF ~guard THEN "not-initialized"
  ELSE IF ~bound THEN "not-found"
  ELSE IF ~getChainConfig(chain).ok THEN "unsupported-chain"
  ELSE IF getChainConfig(chain).config.name = "" THEN "type-error"
  ELSE "none"

\* C24: the checks run in a fixed order.  signERC2612Permit called with a
\* chain name that is not a key of the chain table fails with
\* unsupported-chain, whatever the manager and the user id are; each of the
\* other wallet calls fails with not-initialized on an uninitialized
\* manager, otherwise with not-found for an id without a binding, otherwise
\* with unsupported-chain for a chain name that is not a key of the table.
C24_ErrorPrecedence ==
  LET unknown == last.chain \notin getSupportedChains
  IN last.op \in WalletOps =>
       IF last.op = "signERC2612Permit" /\ unknown
         THEN last.out = "unsupported-chain"
       ELSE IF ~last.guard THEN last.out = "not-initialized"
       ELSE IF ~last.bound THEN last.out = "not-found"
       ELSE unknown => last.out = "unsupported-chain"

\* The calls whose request to the wallet is on record: those waiting for
\* it and the one that has just returned from it.
Requested(op) ==
  {s \in BagToSet(calls) : s.op = op /\ s.pc = "request"}
    \cup (IF last.op = op /\ last.nreq = 1 THEN {last} ELSE {})

C28_HelpersNeedNoSetup ==
  [][ /\ helper' # helper =>
           /\ helper'.out # "not-initialized"
           /\ helper'.op = "getSupportedChains" =>
                /\ helper'.out = "ok"
                /\ helper'.chains = DOMAIN SUPPORTED_CHAINS
           /\ helper'.op = "getChainConfig" =>
                IF helper'.chain \in DOMAIN SUPPORTED_CHAINS
                  THEN /\ helper'.out = "ok"
                       /\ helper'.config = SUPPORTED_CHAINS[helper'.chain]
                ELSE IF helper'.chain \in ObjectPrototypeKeys
                  THEN /\ helper'.out = "ok"
                       /\ helper'.config = Inherited(helper'.chain)
                  ELSE helper'.out = "unsupported-chain"
           /\ helper'.op = "verifySignature" =>
                /\ helper'.out = "ok"
                /\ helper'.valid =
                     Verified(Recover("eip191", helper'.payload,
                                      helper'.signature), helper'.address)
           /\ helper'.op = "verifyTypedDataSignature" =>
                /\ helper'.out = "ok"
                /\ helper'.valid =
                     Verified(Recover("eip712", helper'.payload,
                                      helper'.signature), helper'.address)
      /\ last'.op = "listUserWallets" =>
           /\ last'.out = "ok"
           /\ last'.list = Bindings ]_vars

\* listUserWallets has returned a stored binding on a manager that was
\* constructed and never set up.
C28_Witness ==
  /\ last.op = "listUserWallets" /\ last.out = "ok"
  /\ last.list # << >>
  /\ last.preInit /\ ~litClient /\ ~masterWallet /\ ~contractClient
====
